---- MODULE Spec2Model ----
(***************************************************************************)
(* The quiz store of the vocabulary trainer (src/src/store/quizStore.ts)   *)
(* with its helpers (src/src/store/helpers.ts) and the word statistics     *)
(* (src/src/utils/storage.ts).                                             *)
(*                                                                         *)
(* Encoding.  A string is a sequence of one-character strings.  A          *)
(* VocabItem is referred to by its id (a positive number); NoWord (0)      *)
(* stands for null/undefined.  lastResult is "true", "false" or "null".    *)
(* wordStats is a function whose domain is the set of ids that have an     *)
(* entry.  Timestamps (lastSessionDate, lastAttempted) are not modelled.   *)
(* The flag statsExpanded is not modelled either: only setStatsExpanded     *)
(* writes it and no action of the store reads it.                          *)
(*                                                                         *)
(* persisted is the content of the localStorage key "hr-vocab-stats": the  *)
(* persist middleware writes the partialized state there after every       *)
(* set() and the store starts from what an earlier session left there.     *)
(* fnArgs and fnResult hold one call of a pure helper and its result; the  *)
(* store does not touch them.                                              *)
(***************************************************************************)
EXTENDS Integers, Sequences, FiniteSets

(* ---- bounds of the model ---------------------------------------------- *)
MaxAttempts == 2
MaxTimers == 2
MaxIndex == 3

(* ---- strings ---------------------------------------------------------- *)
\* String.prototype.toLowerCase, on the characters the vocabulary uses
LowerChar(c) ==
  CASE c = "J" -> "j"
    [] c = "Y" -> "y"
    [] c = "N" -> "n"
    [] c = "O" -> "o"
    [] c = "A" -> "a"
    [] c = "E" -> "e"
    [] c = "S" -> "s"
    [] OTHER -> c

\* a wrong variant of toLowerCase: the case is kept
toLowerCaseNone(s) == s

toLowerCase(s) == [i \in 1..Len(s) |-> LowerChar(s[i])]

RECURSIVE trimStart(_)
trimStart(s) == IF s # <<>> /\ Head(s) = " " THEN trimStart(Tail(s)) ELSE s

RECURSIVE trimEnd(_)
trimEnd(s) ==
  IF s # <<>> /\ s[Len(s)] = " " THEN trimEnd(SubSeq(s, 1, Len(s) - 1)) ELSE s

\* a wrong variant of trim: nothing is removed
trimNone(s) == s

\* String.prototype.trim
trim(s) == trimEnd(trimStart(s))

(* ---- vocabulary ------------------------------------------------------- *)
NoWord == 0

\* the word list handed to initializeQuiz / setDifficulty
VOCAB ==
  << [id |-> 1, de |-> <<"J", "a">>, en |-> <<"Y", "e", "s">>, difficulty |-> "easy"],
     [id |-> 2, de |-> <<"O", "b">>, en |-> <<"i", "f">>,      difficulty |-> "medium"] >>

\* further words, for calls of the helpers on longer lists
MoreWords ==
  << [id |-> 3, de |-> <<"N", "e">>, en |-> <<"N", "o">>,      difficulty |-> "easy"],
     [id |-> 4, de |-> <<"z", "u">>, en |-> <<"t", "o">>,      difficulty |-> "medium"],
     [id |-> 5, de |-> <<"a", "b">>, en |-> <<"o", "f", "f">>, difficulty |-> "hard"] >>

WORDS == VOCAB \o MoreWords

Item(id) == CHOOSE v \in {WORDS[i] : i \in 1..Len(WORDS)} : v.id = id

Modes == {"de-to-en", "en-to-de"}

\* the selectors the menu offers: "all", each difficulty tier, "failed"
Selectors == {"all", "easy", "medium", "hard", "failed"}

\* the difficulty argument left out (undefined)
NoDifficulty == "undefined"

\* the answer expected for a word under a mode
Target(id, m) == IF m = "de-to-en" THEN Item(id).en ELSE Item(id).de

\* what the learner may type into the answer field
Inputs ==
  { <<>>, <<" ">>, <<" ", "j", "A", " ">>, <<"Y", "e", "s", " ">> }

(* ---- helpers.ts ------------------------------------------------------- *)
\* all orderings of a sequence
Orderings(s) ==
  LET n == Len(s)
      P == {p \in [1..n -> 1..n] : \A i, j \in 1..n : p[i] = p[j] => i = j}
  IN  {[i \in 1..n |-> s[p[i]]] : p \in P}

\* a wrong variant of filterVocab: "all" is taken for a difficulty tier
filterVocabAllAsTier(items, diff, failedWordIds) ==
  LET keep(id) ==
        IF diff = "failed" THEN id \in failedWordIds
        ELSE IF diff = NoDifficulty THEN TRUE
        ELSE Item(id).difficulty = diff
  IN  SelectSeq(items, keep)

\* filterVocab, on a sequence of ids; failedWordIds is always passed
filterVocab(items, diff, failedWordIds) ==
  LET keep(id) ==
        IF diff = "failed" THEN id \in failedWordIds
        ELSE IF diff = NoDifficulty \/ diff = "all" THEN TRUE
        ELSE Item(id).difficulty = diff
  IN  SelectSeq(items, keep)

Swap(s, i, j) == [s EXCEPT ![i] = s[j], ![j] = s[i]]

\* the Fisher-Yates loop from position i down to 2, every draw of j
RECURSIVE FisherYates(_, _)
FisherYates(copy, i) ==
  IF i <= 1 THEN {copy}
  ELSE UNION {FisherYates(Swap(copy, i, j), i - 1) : j \in 1..i}

\* shuffleArray: the results over every outcome of Math.random
shuffleArray(items) == FisherYates(items, Len(items))

\* a wrong variant of getChoices: the current word stays among the candidates
getChoicesKeepCurrent(vocab, current, m) ==
  LET others == vocab
      k == IF Len(others) < 3 THEN Len(others) ELSE 3
      distractorSets == {SubSeq(p, 1, k) : p \in Orderings(others)}
      options(d) ==
        <<[text |-> Target(current, m), isCorrect |-> TRUE]>> \o
        [i \in 1..Len(d) |-> [text |-> Target(d[i], m), isCorrect |-> FALSE]]
  IN  UNION {Orderings(options(d)) : d \in distractorSets}

\* getChoices: the results over every outcome of the two random sorts
getChoices(vocab, current, m) ==
  LET others == SelectSeq(vocab, LAMBDA v : v # current)
      k == IF Len(others) < 3 THEN Len(others) ELSE 3
      distractorSets == {SubSeq(p, 1, k) : p \in Orderings(others)}
      options(d) ==
        <<[text |-> Target(current, m), isCorrect |-> TRUE]>> \o
        [i \in 1..Len(d) |-> [text |-> Target(d[i], m), isCorrect |-> FALSE]]
  IN  UNION {Orderings(options(d)) : d \in distractorSets}

\* a wrong variant of shuffleArrayRun: the loop swaps in the caller's array
shuffleArrayInPlace(items) ==
  {[result |-> r, items |-> r] : r \in FisherYates(items, Len(items))}

\* a call of shuffleArray: the array it returns and the caller's array
\* afterwards; the loop works on the copy [...items]
shuffleArrayRun(items) ==
  LET copy == items
  IN  {[result |-> r, items |-> items] : r \in FisherYates(copy, Len(copy))}

\* a call of getChoices: the options it returns and the caller's list
\* afterwards; sort works in place, on the array filter made
getChoicesRun(vocab, current, m) ==
  {[result |-> r, vocab |-> vocab] : r \in getChoices(vocab, current, m)}

(* ---- storage.ts ------------------------------------------------------- *)
EmptyStats == [correct |-> 0, attempts |-> 0, wordStats |-> <<>>]

\* clearStats: the record it returns
clearStats == EmptyStats

\* a wrong variant of updateWordStats: only wrong answers count as attempts
updateWordStatsCountWrongOnly(st, wordId, isCorrect) ==
  LET ws == st.wordStats
      cur == IF wordId \in DOMAIN ws THEN ws[wordId]
             ELSE [attempts |-> 0, correct |-> 0]
      new == [attempts |-> cur.attempts + (IF isCorrect THEN 0 ELSE 1),
              correct |-> cur.correct + (IF isCorrect THEN 1 ELSE 0)]
  IN  [st EXCEPT !.wordStats =
         [w \in (DOMAIN ws) \cup {wordId} |-> IF w = wordId THEN new ELSE ws[w]]]

\* a wrong variant of updateWordStats: a correct answer makes up for the
\* earlier wrong ones
updateWordStatsForgiving(st, wordId, isCorrect) ==
  LET ws == st.wordStats
      cur == IF wordId \in DOMAIN ws THEN ws[wordId]
             ELSE [attempts |-> 0, correct |-> 0]
      new == [attempts |-> cur.attempts + 1,
              correct |-> IF isCorrect THEN cur.attempts + 1 ELSE cur.correct]
  IN  [st EXCEPT !.wordStats =
         [w \in (DOMAIN ws) \cup {wordId} |-> IF w = wordId THEN new ELSE ws[w]]]

\* a wrong variant of updateWordStats: the entries of the other words are lost
updateWordStatsDropOthers(st, wordId, isCorrect) ==
  LET ws == st.wordStats
      cur == IF wordId \in DOMAIN ws THEN ws[wordId]
             ELSE [attempts |-> 0, correct |-> 0]
      new == [attempts |-> cur.attempts + 1,
              correct |-> cur.correct + (IF isCorrect THEN 1 ELSE 0)]
  IN  [st EXCEPT !.wordStats = [w \in {wordId} |-> new]]

updateWordStats(st, wordId, isCorrect) ==
  LET ws == st.wordStats
      cur == IF wordId \in DOMAIN ws THEN ws[wordId]
             ELSE [attempts |-> 0, correct |-> 0]
      new == [attempts |-> cur.attempts + 1,
              correct |-> cur.correct + (IF isCorrect THEN 1 ELSE 0)]
  IN  [st EXCEPT !.wordStats =
         [w \in (DOMAIN ws) \cup {wordId} |-> IF w = wordId THEN new ELSE ws[w]]]

\* a wrong variant of getFailedWordIds: every attempted word counts as failed
getFailedWordIdsAttempted(st) ==
  {w \in DOMAIN st.wordStats : st.wordStats[w].attempts >= st.wordStats[w].correct}

getFailedWordIds(st) ==
  {w \in DOMAIN st.wordStats : st.wordStats[w].attempts > st.wordStats[w].correct}

(* ---- storage.ts: localStorage and JSON -------------------------------- *)
\* JavaScript values, tagged by type; an object is the list of its members
\* in property order
Undefined == [t |-> "undefined"]
Null == [t |-> "null"]
Num(n) == [t |-> "number", n |-> n]
Str(x) == [t |-> "string", s |-> x]
Obj(ms) == [t |-> "object", members |-> ms]
Member(k, v) == [key |-> k, val |-> v]

\* the property key of a word id
IdKey == << "1", "2", "3", "4", "5" >>

\* o[k]
Get(o, k) ==
  IF o.t = "object" /\ \E i \in DOMAIN o.members : o.members[i].key = k
    THEN o.members[CHOOSE i \in DOMAIN o.members : o.members[i].key = k].val
    ELSE Undefined

\* the members of { ...o }: none for a value that is not an object
Spread(o) == IF o.t = "object" THEN o.members ELSE <<>>

\* the members of { ...ms, k: v }: an existing key keeps its place
With(ms, k, v) ==
  IF \E i \in DOMAIN ms : ms[i].key = k
    THEN [i \in DOMAIN ms |-> IF ms[i].key = k THEN Member(k, v) ELSE ms[i]]
    ELSE Append(ms, Member(k, v))

Truthy(v) ==
  CASE v.t = "undefined" -> FALSE
    [] v.t = "null" -> FALSE
    [] v.t = "number" -> v.n # 0
    [] v.t = "string" -> v.s # ""
    [] OTHER -> TRUE

\* a || b
OrElse(a, b) == IF Truthy(a) THEN a ELSE b

\* a > 0, false for undefined
Positive(v) == v.t = "number" /\ v.n > 0

\* what JSON.stringify keeps of a value: members whose value is undefined
\* are left out, at every depth
RECURSIVE Serial(_)
Serial(v) ==
  IF v.t # "object" THEN v
  ELSE LET kept == SelectSeq(v.members, LAMBDA m : m.val.t # "undefined")
       IN  Obj([i \in DOMAIN kept |-> Member(kept[i].key, Serial(kept[i].val))])

\* texts a storage key can hold: the JSON text of a value, the empty string,
\* or a text that is not JSON
JSONText(v) == [kind |-> "json", value |-> v]
EmptyText == [kind |-> "empty"]
GarbageText == [kind |-> "garbage"]

JSON_stringify(v) == JSONText(Serial(v))

\* the outcome of a block of statements: it returned a value, it threw, or
\* it ran to its end
Returned(v) == [kind |-> "return", value |-> v]
Threw == [kind |-> "throw"]
Completed == [kind |-> "next"]

\* JSON.parse
JSON_parse(text) == IF text.kind = "json" THEN Returned(text.value) ELSE Threw

\* the moment of the call, for new Date().toISOString()
Now == "now"

\* { correct: 0, attempts: 0, lastSessionDate: <now>, wordStats: {} }
DefaultStats ==
  Obj(<< Member("correct", Num(0)), Member("attempts", Num(0)),
         Member("lastSessionDate", Str(Now)), Member("wordStats", Obj(<<>>)) >>)

\* localStorage.getItem(STATS_KEY); throws when the storage is unavailable
getItem(stored, throws) ==
  IF throws THEN Threw
  ELSE IF stored.present THEN Returned([present |-> TRUE, text |-> stored.text])
  ELSE Returned([present |-> FALSE])

\* the try block of loadStats
loadStatsTry(stored, throws) ==
  LET got == getItem(stored, throws)
  IN  IF got.kind = "throw" THEN Threw
      ELSE IF ~got.value.present \/ got.value.text.kind = "empty" THEN Completed
      ELSE LET p == JSON_parse(got.value.text)
           IN  IF p.kind = "throw" THEN Threw
               ELSE IF p.value.t \in {"null", "undefined"} THEN Threw
               ELSE Returned(Obj(With(Spread(p.value), "wordStats",
                                      OrElse(Get(p.value, "wordStats"), Obj(<<>>)))))

\* a wrong variant of loadStats: a record without the per-word map is
\* taken for no record
loadStatsRejectLegacy(stored, throws) ==
  LET o == loadStatsTry(stored, throws)
  IN  IF o.kind = "return" /\ stored.present /\ stored.text.kind = "json"
           /\ Get(stored.text.value, "wordStats") # Undefined
        THEN o
        ELSE Returned(DefaultStats)

\* a wrong variant of loadStats: the session date is renewed on load
loadStatsFreshDate(stored, throws) ==
  LET o == loadStatsTry(stored, throws)
  IN  IF o.kind = "return"
        THEN Returned(Obj(With(o.value.members, "lastSessionDate", Str(Now))))
        ELSE Returned(DefaultStats)

\* a wrong variant of loadStats: an exception of the read or the parse escapes
loadStatsNoCatch(stored, throws) ==
  LET o == loadStatsTry(stored, throws)
  IN  IF o.kind = "next" THEN Returned(DefaultStats) ELSE o

loadStats(stored, throws) ==
  LET o == loadStatsTry(stored, throws)
  IN  IF o.kind = "return" THEN o ELSE Returned(DefaultStats)

\* localStorage.setItem(STATS_KEY, text); throws when the storage is
\* unavailable or full, and then leaves the key as it was
setItem(stored, text, throws) ==
  IF throws THEN [outcome |-> Threw, stored |-> stored]
  ELSE [outcome |-> Completed, stored |-> [present |-> TRUE, text |-> text]]

\* localStorage.removeItem(STATS_KEY)
removeItem(stored, throws) ==
  IF throws THEN [outcome |-> Threw, stored |-> stored]
  ELSE [outcome |-> Completed, stored |-> [present |-> FALSE]]

\* saveStats: its outcome and what the key holds afterwards; an exception of
\* the write is caught and logged
saveStats(stored, st, throws) ==
  LET w == setItem(stored, JSON_stringify(st), throws)
  IN  [outcome |-> Returned(Undefined), stored |-> w.stored]

\* clearStats as a call on the storage: its outcome and what the key holds
\* afterwards; an exception of the removal is caught and logged
clearStatsCall(stored, throws) ==
  LET w == removeItem(stored, throws)
  IN  [outcome |-> Returned(DefaultStats), stored |-> w.stored]

\* migrateOldStats: the part of the initial state taken from the old record
migrateOldStats(stored, throws) ==
  LET l == loadStats(stored, throws)
  IN  IF l.kind # "return" THEN Returned(Obj(<<>>))
      ELSE LET oldStats == l.value
           IN  IF Positive(Get(oldStats, "attempts")) \/ Positive(Get(oldStats, "correct"))
                 THEN Returned(Obj(<< Member("stats", oldStats),
                                      Member("correct", Get(oldStats, "correct")),
                                      Member("attempts", Get(oldStats, "attempts")) >>))
                 ELSE Returned(Obj(<<>>))

(* ---- the store -------------------------------------------------------- *)
VARIABLES
  index, mode, difficulty, shuffled,
  displayWord, displayChoices,
  hasAnswered, userInput, lastResult,
  showHelp, menuOpen,
  isTransitioning,
  stats, correct, attempts,
  timers,     \* pending setTimeout callbacks, oldest first; each entry tells
              \* whether restartQuiz or setDifficulty ran since it was scheduled
  mounted,    \* the App's mount effect has called initializeQuiz
  persisted,  \* what localStorage holds under "hr-vocab-stats"
  fnArgs,     \* a call of a pure helper: its name and arguments
  fnResult    \* the value that call returned, once it has

vars ==
  << index, mode, difficulty, shuffled, displayWord, displayChoices,
     hasAnswered, userInput, lastResult, showHelp, menuOpen,
     isTransitioning, stats, correct, attempts, timers, mounted,
     persisted, fnArgs, fnResult >>

quizVars == << index, mode, difficulty, shuffled, displayWord, displayChoices >>
answerVars == << hasAnswered, userInput, lastResult, isTransitioning >>
statsVars == << stats, correct, attempts >>
uiVars == << showHelp, menuOpen >>
fnVars == << fnArgs, fnResult >>

\* no record under the key
NoRecord == [present |-> FALSE]

\* a wrong variant of partialize: the stats object is left out of the record
partializeCountsOnly(st, c, a) ==
  [present |-> TRUE, stats |-> EmptyStats, correct |-> c, attempts |-> a]

\* partialize: the part of the state the persist middleware stores
partialize(st, c, a) == [present |-> TRUE, stats |-> st, correct |-> c, attempts |-> a]

\* the write of the persist middleware that follows a set()
Persist == persisted' = partialize(stats', correct', attempts')

RECURSIVE SumOver(_, _, _)
SumOver(ws, field, D) ==
  IF D = {} THEN 0
  ELSE LET w == CHOOSE x \in D : TRUE
       IN  ws[w][field] + SumOver(ws, field, D \ {w})

\* the stats an earlier session of the store can have reached
PastStats ==
  LET vals == {[attempts |-> a, correct |-> c] :
                 a \in 1..MaxAttempts, c \in 0..MaxAttempts}
      maps == UNION {[D -> {v \in vals : v.correct <= v.attempts}] :
                       D \in SUBSET {VOCAB[i].id : i \in 1..Len(VOCAB)}}
  IN  {[correct |-> SumOver(ws, "correct", DOMAIN ws),
        attempts |-> SumOver(ws, "attempts", DOMAIN ws),
        wordStats |-> ws] :
         ws \in {m \in maps : SumOver(m, "attempts", DOMAIN m) <= MaxAttempts}}

\* what the key can hold when the store is created
StoredRecords ==
  {NoRecord} \cup {partialize(st, st.correct, st.attempts) : st \in PastStats}

\* the call slot of the pure helpers, unused
NoCall == [op |-> "none"]
NotDone == [done |-> FALSE]

\* the store's initial state apart from the rehydrated stats
StoreDefaults ==
  /\ index = 0
  /\ mode = "de-to-en"
  /\ difficulty = "all"
  /\ shuffled = <<>>
  /\ displayWord = NoWord
  /\ displayChoices = <<>>
  /\ hasAnswered = FALSE
  /\ userInput = <<>>
  /\ lastResult = "null"
  /\ showHelp = FALSE
  /\ menuOpen = FALSE
  /\ isTransitioning = FALSE
  /\ timers = <<>>
  /\ mounted = FALSE

Init ==
  /\ StoreDefaults
  /\ \E rec \in StoredRecords :
       /\ persisted = rec
       /\ stats = IF rec.present THEN rec.stats ELSE EmptyStats
       /\ correct = IF rec.present THEN rec.correct ELSE 0
       /\ attempts = IF rec.present THEN rec.attempts ELSE 0
  /\ fnArgs = NoCall
  /\ fnResult = NotDone

AllIds == [i \in 1..Len(VOCAB) |-> VOCAB[i].id]

\* shuffled[0] || null
FirstOrNull(s) == IF s = <<>> THEN NoWord ELSE s[1]

\* firstWord ? getChoices(shuffled, firstWord, mode) : []
ChoicesFor(deck, word, m) ==
  IF word = NoWord THEN {<<>>} ELSE getChoices(deck, word, m)

\* a wrong variant of wordAt: the index is not wrapped around the deck
wordAtNoWrap(deck, i) == IF i + 1 \in DOMAIN deck THEN deck[i + 1] ELSE NoWord

\* shuffled[i % Math.max(1, shuffled.length)], undefined on an empty deck
wordAt(deck, i) ==
  LET len == IF Len(deck) > 1 THEN Len(deck) ELSE 1
      pos == i % len
  IN  IF pos + 1 \in DOMAIN deck THEN deck[pos + 1] ELSE NoWord

\* every pending timer now predates a reset of the session
MarkStale(ts) == [i \in 1..Len(ts) |-> TRUE]

\* a wrong variant of initializeQuiz: the first word is taken from the
\* filtered list instead of the shuffled one
initializeQuizUnshuffledFirst(diff) ==
  /\ ~mounted
  /\ mounted' = TRUE
  /\ LET filtered == filterVocab(AllIds, diff, getFailedWordIds(stats))
     IN  \E deck \in shuffleArray(filtered) :
           /\ shuffled' = deck
           /\ displayWord' = FirstOrNull(filtered)
           /\ \E ch \in ChoicesFor(deck, FirstOrNull(filtered), mode) :
                displayChoices' = ch
  /\ difficulty' = diff
  /\ index' = 0
  /\ UNCHANGED << mode, answerVars, uiVars, statsVars, timers,
                  fnVars >>
  /\ Persist

initializeQuiz(diff) ==
  /\ ~mounted
  /\ mounted' = TRUE
  /\ \E deck \in shuffleArray(filterVocab(AllIds, diff, getFailedWordIds(stats))) :
       /\ shuffled' = deck
       /\ displayWord' = FirstOrNull(deck)
       /\ \E ch \in ChoicesFor(deck, FirstOrNull(deck), mode) : displayChoices' = ch
  /\ difficulty' = diff
  /\ index' = 0
  /\ UNCHANGED << mode, answerVars, uiVars, statsVars, timers,
                  fnVars >>
  /\ Persist

\* a wrong variant of setMode: the choices are made under the old mode
setModeStaleChoices(m) ==
  /\ mounted
  /\ mode' = m
  /\ IF displayWord # NoWord
       THEN \E ch \in getChoices(shuffled, displayWord, mode) : displayChoices' = ch
       ELSE UNCHANGED displayChoices
  /\ UNCHANGED << index, difficulty, shuffled, displayWord, answerVars, uiVars,
                  statsVars, timers, mounted,
                  fnVars >>
  /\ Persist

setMode(m) ==
  /\ mounted
  /\ mode' = m
  /\ IF displayWord # NoWord
       THEN \E ch \in getChoices(shuffled, displayWord, m) : displayChoices' = ch
       ELSE UNCHANGED displayChoices
  /\ UNCHANGED << index, difficulty, shuffled, displayWord, answerVars, uiVars,
                  statsVars, timers, mounted,
                  fnVars >>
  /\ Persist

\* a wrong variant of setDifficulty: the first word of the vocabulary is
\* shown, whatever the filter let through
setDifficultyFirstOfVocab(diff) ==
  /\ mounted
  /\ \E deck \in shuffleArray(filterVocab(AllIds, diff, getFailedWordIds(stats))) :
       /\ shuffled' = deck
       /\ displayWord' = FirstOrNull(AllIds)
       /\ \E ch \in ChoicesFor(deck, FirstOrNull(AllIds), mode) : displayChoices' = ch
  /\ difficulty' = diff
  /\ index' = 0
  /\ showHelp' = FALSE
  /\ timers' = MarkStale(timers)
  /\ UNCHANGED << mode, answerVars, menuOpen, statsVars, mounted,
                  fnVars >>
  /\ Persist

\* a wrong variant of setDifficulty: when the filter lets no word through,
\* the word and choices shown before stay
setDifficultyKeepWordOnEmpty(diff) ==
  /\ mounted
  /\ \E deck \in shuffleArray(filterVocab(AllIds, diff, getFailedWordIds(stats))) :
       /\ shuffled' = deck
       /\ IF deck = <<>>
            THEN UNCHANGED << displayWord, displayChoices >>
            ELSE /\ displayWord' = FirstOrNull(deck)
                 /\ \E ch \in ChoicesFor(deck, FirstOrNull(deck), mode) :
                      displayChoices' = ch
  /\ difficulty' = diff
  /\ index' = 0
  /\ showHelp' = FALSE
  /\ timers' = MarkStale(timers)
  /\ UNCHANGED << mode, answerVars, menuOpen, statsVars, mounted,
                  fnVars >>
  /\ Persist

setDifficulty(diff) ==
  /\ mounted
  /\ \E deck \in shuffleArray(filterVocab(AllIds, diff, getFailedWordIds(stats))) :
       /\ shuffled' = deck
       /\ displayWord' = FirstOrNull(deck)
       /\ \E ch \in ChoicesFor(deck, FirstOrNull(deck), mode) : displayChoices' = ch
  /\ difficulty' = diff
  /\ index' = 0
  /\ showHelp' = FALSE
  /\ timers' = MarkStale(timers)
  /\ UNCHANGED << mode, answerVars, menuOpen, statsVars, mounted,
                  fnVars >>
  /\ Persist

\* a wrong variant of handleAnswer: the next word is shown at once, without
\* the freeze (the timing defect the store was written to remove)
handleAnswerNoFreeze(isCorrect) ==
  /\ mounted
  /\ displayWord # NoWord
  /\ attempts < MaxAttempts
  /\ Len(timers) < MaxTimers
  /\ index + Len(timers) < MaxIndex
  /\ LET newAttempts == attempts + 1
         newCorrect == correct + (IF isCorrect THEN 1 ELSE 0)
         updatedStats == updateWordStats(stats, displayWord, isCorrect)
     IN  /\ stats' = [updatedStats EXCEPT !.correct = newCorrect,
                                          !.attempts = newAttempts]
         /\ correct' = newCorrect
         /\ attempts' = newAttempts
  /\ hasAnswered' = TRUE
  /\ lastResult' = IF isCorrect THEN "true" ELSE "false"
  /\ showHelp' = FALSE
  /\ isTransitioning' = TRUE
  /\ timers' = Append(timers, FALSE)
  /\ displayWord' = wordAt(shuffled, index + 1)
  /\ \E ch \in ChoicesFor(shuffled, wordAt(shuffled, index + 1), mode) :
       displayChoices' = ch
  /\ UNCHANGED << index, mode, difficulty, shuffled, userInput, menuOpen, mounted,
                  fnVars >>
  /\ Persist

\* a wrong variant of handleAnswer: the counts inside the stats object are
\* not brought up to date
handleAnswerStaleTotals(isCorrect) ==
  /\ mounted
  /\ displayWord # NoWord
  /\ attempts < MaxAttempts
  /\ Len(timers) < MaxTimers
  /\ index + Len(timers) < MaxIndex
  /\ stats' = updateWordStats(stats, displayWord, isCorrect)
  /\ correct' = correct + (IF isCorrect THEN 1 ELSE 0)
  /\ attempts' = attempts + 1
  /\ hasAnswered' = TRUE
  /\ lastResult' = IF isCorrect THEN "true" ELSE "false"
  /\ showHelp' = FALSE
  /\ isTransitioning' = TRUE
  /\ timers' = Append(timers, FALSE)
  /\ UNCHANGED << quizVars, userInput, menuOpen, mounted,
                  fnVars >>
  /\ Persist

\* a wrong variant of handleAnswer: no advance is scheduled
handleAnswerNoTimer(isCorrect) ==
  /\ mounted
  /\ displayWord # NoWord
  /\ attempts < MaxAttempts
  /\ Len(timers) < MaxTimers
  /\ index + Len(timers) < MaxIndex
  /\ LET newAttempts == attempts + 1
         newCorrect == correct + (IF isCorrect THEN 1 ELSE 0)
         updatedStats == updateWordStats(stats, displayWord, isCorrect)
     IN  /\ stats' = [updatedStats EXCEPT !.correct = newCorrect,
                                          !.attempts = newAttempts]
         /\ correct' = newCorrect
         /\ attempts' = newAttempts
  /\ hasAnswered' = TRUE
  /\ lastResult' = IF isCorrect THEN "true" ELSE "false"
  /\ showHelp' = FALSE
  /\ isTransitioning' = TRUE
  /\ UNCHANGED << quizVars, userInput, menuOpen, mounted, timers,
                  fnVars >>
  /\ Persist

\* handleAnswer(isCorrect, currentWord); the callers pass the displayed word
handleAnswer(isCorrect) ==
  /\ mounted
  /\ displayWord # NoWord
  /\ attempts < MaxAttempts
  /\ Len(timers) < MaxTimers
  /\ index + Len(timers) < MaxIndex
  /\ LET newAttempts == attempts + 1
         newCorrect == correct + (IF isCorrect THEN 1 ELSE 0)
         updatedStats == updateWordStats(stats, displayWord, isCorrect)
     IN  /\ stats' = [updatedStats EXCEPT !.correct = newCorrect,
                                          !.attempts = newAttempts]
         /\ correct' = newCorrect
         /\ attempts' = newAttempts
  /\ hasAnswered' = TRUE
  /\ lastResult' = IF isCorrect THEN "true" ELSE "false"
  /\ showHelp' = FALSE
  /\ isTransitioning' = TRUE
  /\ timers' = Append(timers, FALSE)
  /\ UNCHANGED << quizVars, userInput, menuOpen, mounted,
                  fnVars >>
  /\ Persist

\* a wrong variant of advanceToNextQuestion: the choices are made for the
\* word shown before
advanceToNextQuestionOldChoices ==
  /\ timers # <<>>
  /\ timers' = Tail(timers)
  /\ LET nextIndex == index + 1
         nextWord == wordAt(shuffled, nextIndex)
     IN  /\ index' = nextIndex
         /\ displayWord' = nextWord
         /\ \E ch \in ChoicesFor(shuffled, displayWord, mode) : displayChoices' = ch
  /\ hasAnswered' = FALSE
  /\ userInput' = <<>>
  /\ lastResult' = "null"
  /\ isTransitioning' = FALSE
  /\ UNCHANGED << mode, difficulty, shuffled, uiVars, statsVars, mounted,
                  fnVars >>
  /\ Persist

\* a wrong variant of advanceToNextQuestion: the index is wrapped around the
\* deck as well
advanceToNextQuestionWrapIndex ==
  /\ timers # <<>>
  /\ timers' = Tail(timers)
  /\ LET nextIndex == index + 1
         nextWord == wordAt(shuffled, nextIndex)
     IN  /\ index' = nextIndex % (IF Len(shuffled) > 1 THEN Len(shuffled) ELSE 1)
         /\ displayWord' = nextWord
         /\ \E ch \in ChoicesFor(shuffled, nextWord, mode) : displayChoices' = ch
  /\ hasAnswered' = FALSE
  /\ userInput' = <<>>
  /\ lastResult' = "null"
  /\ isTransitioning' = FALSE
  /\ UNCHANGED << mode, difficulty, shuffled, uiVars, statsVars, mounted,
                  fnVars >>
  /\ Persist

\* the setTimeout callback of handleAnswer firing
advanceToNextQuestion ==
  /\ timers # <<>>
  /\ timers' = Tail(timers)
  /\ LET nextIndex == index + 1
         nextWord == wordAt(shuffled, nextIndex)
     IN  /\ index' = nextIndex
         /\ displayWord' = nextWord
         /\ \E ch \in ChoicesFor(shuffled, nextWord, mode) : displayChoices' = ch
  /\ hasAnswered' = FALSE
  /\ userInput' = <<>>
  /\ lastResult' = "null"
  /\ isTransitioning' = FALSE
  /\ UNCHANGED << mode, difficulty, shuffled, uiVars, statsVars, mounted,
                  fnVars >>
  /\ Persist

setUserInput(input) ==
  /\ mounted
  /\ userInput' = input
  /\ UNCHANGED << quizVars, hasAnswered, lastResult, isTransitioning, uiVars,
                  statsVars, timers, mounted,
                  fnVars >>
  /\ Persist

\* submitTextAnswer(correctAnswer, currentWord); the form passes the displayed
\* word and its term under the current mode
submitTextAnswer ==
  /\ mounted
  /\ displayWord # NoWord
  /\ IF trim(userInput) = <<>> \/ hasAnswered
       THEN UNCHANGED vars
       ELSE handleAnswer(toLowerCase(trim(userInput))
                           = toLowerCase(Target(displayWord, mode)))

toggleShowHelp ==
  /\ mounted
  /\ showHelp' = ~showHelp
  /\ UNCHANGED << quizVars, answerVars, menuOpen, statsVars, timers, mounted,
                  fnVars >>
  /\ Persist

setShowHelp(show) ==
  /\ mounted
  /\ showHelp' = show
  /\ UNCHANGED << quizVars, answerVars, menuOpen, statsVars, timers, mounted,
                  fnVars >>
  /\ Persist

setMenuOpen(open) ==
  /\ mounted
  /\ menuOpen' = open
  /\ UNCHANGED << quizVars, answerVars, showHelp, statsVars, timers, mounted,
                  fnVars >>
  /\ Persist

\* a wrong variant of resetStats: only the aggregate counts are zeroed
resetStatsKeepWords ==
  /\ mounted
  /\ stats' = [stats EXCEPT !.correct = 0, !.attempts = 0]
  /\ correct' = 0
  /\ attempts' = 0
  /\ menuOpen' = FALSE
  /\ UNCHANGED << quizVars, answerVars, showHelp, timers, mounted,
                  fnVars >>
  /\ Persist

\* a wrong variant of resetStats: the quiz position is reset with the stats
resetStatsAndPosition ==
  /\ mounted
  /\ stats' = clearStats
  /\ correct' = clearStats.correct
  /\ attempts' = clearStats.attempts
  /\ menuOpen' = FALSE
  /\ index' = 0
  /\ UNCHANGED << mode, difficulty, shuffled, displayWord, displayChoices,
                  answerVars, showHelp, timers, mounted,
                  fnVars >>
  /\ Persist

resetStats ==
  /\ mounted
  /\ stats' = clearStats
  /\ correct' = clearStats.correct
  /\ attempts' = clearStats.attempts
  /\ menuOpen' = FALSE
  /\ UNCHANGED << quizVars, answerVars, showHelp, timers, mounted,
                  fnVars >>
  /\ Persist

\* a wrong variant of restartQuiz: the per-word stats are dropped with the
\* session
restartQuizForgetWords ==
  /\ mounted
  /\ index' = 0
  /\ hasAnswered' = FALSE
  /\ userInput' = <<>>
  /\ lastResult' = "null"
  /\ showHelp' = FALSE
  /\ menuOpen' = FALSE
  /\ timers' = MarkStale(timers)
  /\ stats' = [stats EXCEPT !.wordStats = <<>>]
  /\ UNCHANGED << mode, difficulty, shuffled, displayWord, displayChoices,
                  isTransitioning, correct, attempts, mounted,
                  fnVars >>
  /\ Persist

\* a wrong variant of restartQuiz: the verdict of the last answer stays
restartQuizKeepResult ==
  /\ mounted
  /\ index' = 0
  /\ hasAnswered' = FALSE
  /\ userInput' = <<>>
  /\ showHelp' = FALSE
  /\ menuOpen' = FALSE
  /\ timers' = MarkStale(timers)
  /\ UNCHANGED << mode, difficulty, shuffled, displayWord, displayChoices,
                  lastResult, isTransitioning, statsVars, mounted,
                  fnVars >>
  /\ Persist

\* a wrong variant of restartQuiz: the typed text survives the restart
restartQuizKeepInput ==
  /\ mounted
  /\ index' = 0
  /\ hasAnswered' = FALSE
  /\ lastResult' = "null"
  /\ showHelp' = FALSE
  /\ menuOpen' = FALSE
  /\ timers' = MarkStale(timers)
  /\ UNCHANGED << mode, difficulty, shuffled, displayWord, displayChoices,
                  userInput, isTransitioning, statsVars, mounted,
                  fnVars >>
  /\ Persist

restartQuiz ==
  /\ mounted
  /\ index' = 0
  /\ hasAnswered' = FALSE
  /\ userInput' = <<>>
  /\ lastResult' = "null"
  /\ showHelp' = FALSE
  /\ menuOpen' = FALSE
  /\ timers' = MarkStale(timers)
  /\ UNCHANGED << mode, difficulty, shuffled, displayWord, displayChoices,
                  isTransitioning, statsVars, mounted,
                  fnVars >>
  /\ Persist

Next ==
  \/ \E d \in Selectors : initializeQuiz(d)
  \/ \E m \in Modes : setMode(m)
  \/ \E d \in Selectors : setDifficulty(d)
  \/ \E b \in BOOLEAN : handleAnswer(b)
  \/ advanceToNextQuestion
  \/ \E s \in Inputs : setUserInput(s)
  \/ submitTextAnswer
  \/ toggleShowHelp
  \/ \E b \in BOOLEAN : setShowHelp(b)
  \/ \E b \in BOOLEAN : setMenuOpen(b)
  \/ resetStats
  \/ restartQuiz

Spec == Init /\ [][Next]_vars

\* the store with its timers: a callback handed to setTimeout is run by the
\* event loop once its delay has passed
FairSpec == Spec /\ WF_vars(advanceToNextQuestion)

\* a session in which, after initializeQuiz, only answers are given and
\* advances happen
LoopNext ==
  \/ \E d \in Selectors : initializeQuiz(d)
  \/ \E b \in BOOLEAN : handleAnswer(b)
  \/ \E s \in Inputs : setUserInput(s)
  \/ submitTextAnswer
  \/ advanceToNextQuestion

LoopSpec == Init /\ [][LoopNext]_vars

(* ---- the pure helpers, one call at a time ----------------------------- *)
storeVars == << quizVars, answerVars, statsVars, uiVars, timers, mounted, persisted >>

WordIds == {WORDS[i].id : i \in 1..Len(WORDS)}

\* the word lists a helper is called on: the sub-lists of WORDS
WordLists ==
  {SelectSeq([i \in 1..Len(WORDS) |-> WORDS[i].id], LAMBDA id : id \in D) :
     D \in SUBSET WordIds}

\* the stats getFailedWordIds is called on
SampleStats ==
  LET vals == { [attempts |-> 1, correct |-> 0], [attempts |-> 1, correct |-> 1],
                [attempts |-> 2, correct |-> 1], [attempts |-> 2, correct |-> 2] }
  IN  {[correct |-> SumOver(ws, "correct", DOMAIN ws),
        attempts |-> SumOver(ws, "attempts", DOMAIN ws),
        wordStats |-> ws] :
         ws \in UNION {[D -> vals] : D \in SUBSET WordIds}}

Calls ==
  {[op |-> "filterVocab", items |-> l, difficulty |-> d, failedWordIds |-> F] :
     l \in WordLists, d \in Selectors \cup {NoDifficulty}, F \in SUBSET WordIds}
  \cup {[op |-> "getFailedWordIds", stats |-> st] : st \in SampleStats}
  \cup {[op |-> "shuffleArray", items |-> l] : l \in WordLists}
  \cup UNION {{[op |-> "getChoices", vocab |-> l, current |-> l[i], mode |-> m] :
                 i \in DOMAIN l, m \in Modes} : l \in WordLists}

PureInit ==
  /\ StoreDefaults
  /\ stats = EmptyStats
  /\ correct = 0
  /\ attempts = 0
  /\ persisted = NoRecord
  /\ fnArgs \in Calls
  /\ fnResult = NotDone

Return(v) ==
  /\ fnResult' = [done |-> TRUE, value |-> v]
  /\ UNCHANGED << fnArgs, storeVars >>

callFilterVocab ==
  /\ fnArgs.op = "filterVocab"
  /\ ~fnResult.done
  /\ Return(filterVocab(fnArgs.items, fnArgs.difficulty, fnArgs.failedWordIds))

callGetFailedWordIds ==
  /\ fnArgs.op = "getFailedWordIds"
  /\ ~fnResult.done
  /\ Return(getFailedWordIds(fnArgs.stats))

callGetChoices ==
  /\ fnArgs.op = "getChoices"
  /\ ~fnResult.done
  /\ \E r \in getChoicesRun(fnArgs.vocab, fnArgs.current, fnArgs.mode) :
       /\ fnResult' = [done |-> TRUE, value |-> r.result]
       /\ fnArgs' = [fnArgs EXCEPT !.vocab = r.vocab]
       /\ UNCHANGED storeVars

callShuffleArray ==
  /\ fnArgs.op = "shuffleArray"
  /\ ~fnResult.done
  /\ \E r \in shuffleArrayRun(fnArgs.items) :
       /\ fnResult' = [done |-> TRUE, value |-> r.result]
       /\ fnArgs' = [fnArgs EXCEPT !.items = r.items]
       /\ UNCHANGED storeVars

PureNext ==
  \/ callFilterVocab
  \/ callGetFailedWordIds
  \/ callGetChoices
  \/ callShuffleArray

PureSpec == PureInit /\ [][PureNext]_vars

(* ---- the storage functions, one call at a time ------------------------ *)
\* the date of an earlier session
Earlier == "t0"

\* a per-word map as updateWordStats builds it; numeric keys come in
\* ascending order
WordStatsObj(ws) ==
  LET ids == SelectSeq([i \in 1..Len(WORDS) |-> WORDS[i].id], LAMBDA id : id \in DOMAIN ws)
  IN  Obj([i \in DOMAIN ids |->
             Member(IdKey[ids[i]],
                    Obj(<< Member("attempts", Num(ws[ids[i]].attempts)),
                           Member("correct", Num(ws[ids[i]].correct)),
                           Member("lastAttempted", Str(Earlier)) >>))])

\* a Stats object as the program holds it
StatsObj(st) ==
  Obj(<< Member("correct", Num(st.correct)), Member("attempts", Num(st.attempts)),
         Member("lastSessionDate", Str(Earlier)),
         Member("wordStats", WordStatsObj(st.wordStats)) >>)

\* the same without the per-word map, as an older version stored it
LegacyStatsObj(st) ==
  Obj(<< Member("correct", Num(st.correct)), Member("attempts", Num(st.attempts)),
         Member("lastSessionDate", Str(Earlier)) >>)

\* the record the persist middleware keeps under the same key
MiddlewareObj(st) ==
  Obj(<< Member("state", Obj(<< Member("stats", StatsObj(st)),
                                Member("correct", Num(st.correct)),
                                Member("attempts", Num(st.attempts)) >>)),
         Member("version", Num(0)) >>)

\* the Stats objects the program passes to saveStats
SavedStats == {StatsObj(st) : st \in PastStats \cup {EmptyStats}}

\* what the key can hold when a storage function is called
StoredContents ==
  {[present |-> FALSE]}
    \cup {[present |-> TRUE, text |-> t] :
            t \in {EmptyText, GarbageText, JSONText(Null)}
                    \cup {JSON_stringify(o) : o \in SavedStats}
                    \cup {JSON_stringify(LegacyStatsObj(st)) : st \in PastStats}
                    \cup {JSON_stringify(MiddlewareObj(st)) : st \in PastStats}}

StorageCalls ==
  {[op |-> o, throws |-> b] :
     o \in {"loadStats", "clearStats", "saveLoaded", "migrateOldStats"}, b \in BOOLEAN}
  \cup {[op |-> "saveStats", stats |-> st, throws |-> b] : st \in SavedStats, b \in BOOLEAN}

StorageInit ==
  /\ StoreDefaults
  /\ stats = EmptyStats
  /\ correct = 0
  /\ attempts = 0
  /\ persisted \in StoredContents
  /\ fnArgs \in StorageCalls
  /\ fnResult = NotDone

\* the call ends with an outcome and leaves the key holding content
ReturnStoring(outcome, content) ==
  /\ fnResult' = [done |-> TRUE, value |-> outcome]
  /\ persisted' = content
  /\ UNCHANGED << fnArgs, quizVars, answerVars, statsVars, uiVars, timers, mounted >>

callLoadStats ==
  /\ fnArgs.op = "loadStats"
  /\ ~fnResult.done
  /\ ReturnStoring(loadStats(persisted, fnArgs.throws), persisted)

callSaveStats ==
  /\ fnArgs.op = "saveStats"
  /\ ~fnResult.done
  /\ LET r == saveStats(persisted, fnArgs.stats, fnArgs.throws)
     IN  ReturnStoring(r.outcome, r.stored)

callClearStats ==
  /\ fnArgs.op = "clearStats"
  /\ ~fnResult.done
  /\ LET r == clearStatsCall(persisted, fnArgs.throws)
     IN  ReturnStoring(r.outcome, r.stored)

\* saveStats(loadStats())
callSaveLoaded ==
  /\ fnArgs.op = "saveLoaded"
  /\ ~fnResult.done
  /\ LET l == loadStats(persisted, fnArgs.throws)
     IN  IF l.kind = "return"
           THEN LET r == saveStats(persisted, l.value, fnArgs.throws)
                IN  ReturnStoring(r.outcome, r.stored)
           ELSE ReturnStoring(l, persisted)

callMigrateOldStats ==
  /\ fnArgs.op = "migrateOldStats"
  /\ ~fnResult.done
  /\ ReturnStoring(migrateOldStats(persisted, fnArgs.throws), persisted)

StorageNext ==
  \/ callLoadStats
  \/ callSaveStats
  \/ callClearStats
  \/ callSaveLoaded
  \/ callMigrateOldStats

StorageSpec == StorageInit /\ [][StorageNext]_vars

(* ---- properties ------------------------------------------------------- *)
\* a step that submits an answer: a choice click or the text form
SubmitStep == (\E b \in BOOLEAN : handleAnswer(b)) \/ submitTextAnswer

\* C1: while hasAnswered is true, no step other than the advance changes
\* displayWord or displayChoices.
C1_FreezeWhileAnswered ==
  [][(hasAnswered /\ ~advanceToNextQuestion)
       => (displayWord' = displayWord /\ displayChoices' = displayChoices)]_vars

\* C2: the firing of a timer that was pending when restartQuiz or
\* setDifficulty ran leaves index, displayWord and displayChoices as they are.
C2_StaleTimerHarmless ==
  [][(advanceToNextQuestion /\ Head(timers))
       => (index' = index /\ displayWord' = displayWord
           /\ displayChoices' = displayChoices)]_vars

\* C3: a submission (choice click or text) made while hasAnswered is true
\* changes neither the aggregate counts nor any per-word stat.
C3_SubmitWhileAnsweredNoOp ==
  [][(hasAnswered /\ SubmitStep) => UNCHANGED << stats, correct, attempts >>]_vars

\* C4: at no time is more than one deferred advance pending.
C4_AtMostOnePendingAdvance == Len(timers) <= 1

\* C5: an accepted answer sets hasAnswered and isTransitioning, records the
\* verdict in lastResult, and leaves displayWord, displayChoices, index, the
\* deck, mode and difficulty unchanged.
C5_AnswerFreezesDisplay ==
  [][\A b \in BOOLEAN :
       handleAnswer(b)
         => /\ hasAnswered' = TRUE
            /\ isTransitioning' = TRUE
            /\ lastResult' = (IF b THEN "true" ELSE "false")
            /\ UNCHANGED << displayWord, displayChoices, index, shuffled,
                            mode, difficulty >>]_vars

\* C5 witness: feedback for a wrong answer is showing on the second word of
\* the deck.
C5_Witness ==
  /\ hasAnswered /\ isTransitioning /\ lastResult = "false"
  /\ index = 1 /\ Len(shuffled) = 2 /\ displayWord = shuffled[2]
  /\ Len(displayChoices) = 2

\* the per-word counts of a word, zero when it has no entry
StatOf(st, w) ==
  IF w \in DOMAIN st.wordStats THEN st.wordStats[w]
  ELSE [attempts |-> 0, correct |-> 0]

\* C6: an accepted answer adds exactly 1 to the aggregate attempts and to the
\* answered word's attempts, adds 1 to the aggregate correct and to that
\* word's correct iff the verdict is correct, and changes no other word's stat.
C6_AnswerCountsOnce ==
  [][\A b \in BOOLEAN :
       handleAnswer(b)
         => LET inc == IF b THEN 1 ELSE 0
            IN  /\ attempts' = attempts + 1
                /\ correct' = correct + inc
                /\ stats'.attempts = stats.attempts + 1
                /\ stats'.correct = stats.correct + inc
                /\ DOMAIN stats'.wordStats = DOMAIN stats.wordStats \cup {displayWord}
                /\ StatOf(stats', displayWord).attempts
                     = StatOf(stats, displayWord).attempts + 1
                /\ StatOf(stats', displayWord).correct
                     = StatOf(stats, displayWord).correct + inc
                /\ \A w \in DOMAIN stats.wordStats \ {displayWord} :
                     stats'.wordStats[w] = stats.wordStats[w]]_vars

\* C6 witness: two words have been answered, one of them correctly.
C6_Witness ==
  /\ attempts = 2 /\ correct = 1
  /\ DOMAIN stats.wordStats = {1, 2}
  /\ stats.wordStats[1] = [attempts |-> 1, correct |-> 1]
  /\ stats.wordStats[2] = [attempts |-> 1, correct |-> 0]

\* C7: the advance, in one step, sets index to index + 1, shows
\* shuffled[(index + 1) mod length] when the deck is not empty, regenerates
\* the choices for that word under the current mode, and clears hasAnswered,
\* lastResult, userInput and isTransitioning.
C7_AdvanceAtomic ==
  [][advanceToNextQuestion
       => /\ index' = index + 1
          /\ shuffled # <<>>
               => /\ displayWord' = shuffled[((index + 1) % Len(shuffled)) + 1]
                  /\ displayChoices' \in getChoices(shuffled, displayWord', mode)
          /\ hasAnswered' = FALSE
          /\ lastResult' = "null"
          /\ userInput' = <<>>
          /\ isTransitioning' = FALSE]_vars

\* C7 witness: two advances have wrapped around a deck of two words.
C7_Witness ==
  /\ index = 2 /\ Len(shuffled) = 2 /\ displayWord = shuffled[1]
  /\ ~hasAnswered /\ ~isTransitioning /\ lastResult = "null" /\ userInput = <<>>
  /\ attempts = 2

\* C8: with more than one word in the deck the advance always shows a word
\* different from the one shown before it.
C8_AdvanceChangesWord ==
  [][(advanceToNextQuestion /\ Len(shuffled) > 1) => displayWord' # displayWord]_vars

\* C9: after restartQuiz, on a non-empty deck, index is 0 and displayWord is
\* the first word of the deck.
C9_RestartShowsFirstWord ==
  [][(restartQuiz /\ shuffled # <<>>)
       => (index' = 0 /\ displayWord' = shuffled'[1])]_vars

\* C10: restartQuiz sets index to 0, clears hasAnswered, lastResult, userInput
\* and showHelp, and leaves the deck, difficulty, mode and all stats unchanged.
C10_RestartFrame ==
  [][restartQuiz
       => /\ index' = 0
          /\ hasAnswered' = FALSE
          /\ lastResult' = "null"
          /\ userInput' = <<>>
          /\ showHelp' = FALSE
          /\ UNCHANGED << shuffled, difficulty, mode, stats, correct, attempts >>]_vars

\* C10 witness: the quiz was restarted during the feedback of an answer given
\* past the first position of a deck of two words.
C10_Witness ==
  /\ index = 0 /\ ~hasAnswered /\ isTransitioning /\ lastResult = "null"
  /\ userInput = <<>> /\ ~showHelp
  /\ Len(shuffled) = 2 /\ displayWord = shuffled[2]
  /\ attempts = 2 /\ timers = <<TRUE>>

\* the selector lets a word of the vocabulary through, given the stats
Passes(id, sel, st) ==
  \/ sel = "all"
  \/ /\ sel = "failed"
     /\ id \in DOMAIN st.wordStats
     /\ st.wordStats[id].attempts > st.wordStats[id].correct
  \/ sel \notin {"all", "failed"} /\ Item(id).difficulty = sel

\* deck holds, once each and in some order, the words the selector lets through
IsDeckFor(deck, sel, st) ==
  /\ \A i, j \in DOMAIN deck : deck[i] = deck[j] => i = j
  /\ {deck[i] : i \in DOMAIN deck}
       = {id \in {VOCAB[i].id : i \in DOMAIN VOCAB} : Passes(id, sel, st)}

\* ch is a choice list for word w of the deck under mode m
ChoicesMatch(ch, deck, w, m) ==
  /\ Len(ch) = (IF Len(deck) < 4 THEN Len(deck) ELSE 4)
  /\ Cardinality({i \in DOMAIN ch : ch[i].isCorrect}) = 1
  /\ \A i \in DOMAIN ch :
       IF ch[i].isCorrect
         THEN ch[i].text = (IF m = "de-to-en" THEN Item(w).en ELSE Item(w).de)
         ELSE \E j \in DOMAIN deck :
                /\ deck[j] # w
                /\ ch[i].text = (IF m = "de-to-en" THEN Item(deck[j]).en
                                 ELSE Item(deck[j]).de)

\* C11: setDifficulty, from any state, leaves a deck that is a permutation of
\* the vocabulary filtered by the selector and the current stats, index 0,
\* the first word of the deck displayed (none on an empty deck), and showHelp,
\* hasAnswered and lastResult cleared.
C11_DifficultyStartsFresh ==
  [][\A d \in Selectors :
       setDifficulty(d)
         => /\ IsDeckFor(shuffled', d, stats)
            /\ index' = 0
            /\ displayWord' = (IF shuffled' = <<>> THEN NoWord ELSE shuffled'[1])
            /\ showHelp' = FALSE
            /\ hasAnswered' = FALSE
            /\ lastResult' = "null"]_vars

\* C12: setMode sets the mode, regenerates the choices of the displayed word
\* under the new mode, and leaves displayWord, index and the deck unchanged.
C12_ModeRegeneratesChoices ==
  [][\A m \in Modes :
       setMode(m)
         => /\ mode' = m
            /\ displayWord # NoWord
                 => ChoicesMatch(displayChoices', shuffled, displayWord, m)
            /\ UNCHANGED << displayWord, index, shuffled >>]_vars

\* C12 witness: the second word of a deck of two is shown with choices in the
\* other direction.
C12_Witness ==
  /\ mode = "en-to-de" /\ Len(shuffled) = 2 /\ index = 1
  /\ displayWord = shuffled[2]
  /\ \E i \in DOMAIN displayChoices :
       displayChoices[i] = [text |-> Item(displayWord).de, isCorrect |-> TRUE]

RecordCleared(rec) ==
  \/ ~rec.present
  \/ /\ rec.correct = 0 /\ rec.attempts = 0
     /\ rec.stats.correct = 0 /\ rec.stats.attempts = 0
     /\ DOMAIN rec.stats.wordStats = {}

\* C14: resetStats leaves aggregate correct 0, attempts 0 and an empty
\* per-word map in memory, and a stored record without counts or word stats.
C14_ResetClearsStats ==
  [][resetStats
       => /\ correct' = 0 /\ attempts' = 0
          /\ stats'.correct = 0 /\ stats'.attempts = 0
          /\ DOMAIN stats'.wordStats = {}
          /\ RecordCleared(persisted')]_vars

\* C14 witness: the stats were reset while the advance of an answer was pending.
C14_Witness ==
  /\ correct = 0 /\ attempts = 0 /\ DOMAIN stats.wordStats = {}
  /\ RecordCleared(persisted) /\ persisted.present
  /\ timers # <<>> /\ ~timers[1]

\* C15: resetStats leaves the deck, index, displayWord, displayChoices,
\* hasAnswered, lastResult, mode and difficulty unchanged.
C15_ResetKeepsPosition ==
  [][resetStats
       => UNCHANGED << shuffled, index, displayWord, displayChoices,
                       hasAnswered, lastResult, mode, difficulty >>]_vars

\* C15 witness: the feedback of a wrong answer at position 1 is still showing
\* after the stats were reset.
C15_Witness ==
  /\ hasAnswered /\ lastResult = "false" /\ index = 1
  /\ attempts = 0 /\ stats = EmptyStats /\ displayWord # NoWord

\* the text consists of whitespace only (or is empty)
Blank(s) == \A i \in DOMAIN s : s[i] = " "

\* C16: submitTextAnswer with an empty or whitespace-only input changes no
\* state field and schedules no advance.
C16_BlankSubmitNoOp ==
  [][(submitTextAnswer /\ Blank(userInput)) => UNCHANGED vars]_vars

\* C16 witness: a whitespace-only input is in the field of an unanswered word.
C16_Witness ==
  /\ mounted /\ displayWord # NoWord /\ ~hasAnswered
  /\ userInput = <<" ">> /\ attempts < MaxAttempts /\ timers = <<>>

\* the two characters are the same letter, whatever the case
SameLetter(a, b) ==
  LET pairs == { <<"J", "j">>, <<"Y", "y">>, <<"N", "n">>, <<"O", "o">>,
                 <<"A", "a">>, <<"E", "e">>, <<"S", "s">> }
  IN  a = b \/ <<a, b>> \in pairs \/ <<b, a>> \in pairs

\* t is s without its leading and trailing whitespace
IsStripOf(t, s) ==
  \E a, b \in 0..Len(s) :
    /\ a + b <= Len(s)
    /\ \A i \in 1..a : s[i] = " "
    /\ \A i \in (Len(s) - b + 1)..Len(s) : s[i] = " "
    /\ t = SubSeq(s, a + 1, Len(s) - b)
    /\ t = <<>> \/ (t[1] # " " /\ t[Len(t)] # " ")

\* the input, stripped, equals the term up to the case of its letters
MatchesTerm(input, term) ==
  \E t \in {SubSeq(input, a, b) : a \in 1..(Len(input) + 1), b \in 0..Len(input)} :
    /\ IsStripOf(t, input)
    /\ Len(t) = Len(term)
    /\ \A i \in DOMAIN t : SameLetter(t[i], term[i])

\* C17: an accepted text submission is judged correct iff the input, stripped
\* of surrounding whitespace, equals the target term of the displayed word
\* under the current mode up to case.
C17_TextVerdict ==
  [][(submitTextAnswer /\ ~hasAnswered /\ hasAnswered')
       => (lastResult' = "true"
             <=> MatchesTerm(userInput,
                             IF mode = "de-to-en" THEN Item(displayWord).en
                             ELSE Item(displayWord).de))]_vars

\* C17 witness: " jA " was accepted as the German term "Ja".
C17_Witness ==
  /\ hasAnswered /\ lastResult = "true" /\ mode = "en-to-de"
  /\ displayWord = 1 /\ userInput = <<" ", "j", "A", " ">>
  /\ Len(timers) = 1

\* the ids of a list, as a set
Members(l) == {l[i] : i \in DOMAIN l}

\* r holds exactly the items of src that satisfy keep, each once
ExactlyThose(r, src, keep(_)) ==
  /\ Members(r) = {id \in Members(src) : keep(id)}
  /\ Len(r) = Cardinality(Members(r))

\* C18: filterVocab with a selector other than "failed" returns the whole
\* list for "all" or no selector, and otherwise exactly the items of the list
\* whose difficulty equals the selector; of the five words two are easy.
C18_FilterByDifficulty ==
  (fnArgs.op = "filterVocab" /\ fnResult.done /\ fnArgs.difficulty # "failed")
    => /\ IF fnArgs.difficulty \in {"all", NoDifficulty}
            THEN fnResult.value = fnArgs.items
            ELSE ExactlyThose(fnResult.value, fnArgs.items,
                              LAMBDA id : Item(id).difficulty = fnArgs.difficulty)
       /\ (Len(fnArgs.items) = 5 /\ fnArgs.difficulty = "easy")
            => Len(fnResult.value) = 2

\* C18 witness: the five words filtered by "easy" gave two.
C18_Witness ==
  /\ fnArgs.op = "filterVocab" /\ fnResult.done
  /\ Len(fnArgs.items) = 5 /\ fnArgs.difficulty = "easy"
  /\ Len(fnResult.value) = 2

\* C19: with selector "failed" filterVocab returns exactly the items of the
\* list whose id is in the failed-id set, and getFailedWordIds returns
\* exactly the ids whose stat has more attempts than correct answers.
C19_FailedFilter ==
  /\ (fnArgs.op = "filterVocab" /\ fnResult.done /\ fnArgs.difficulty = "failed")
       => ExactlyThose(fnResult.value, fnArgs.items,
                       LAMBDA id : id \in fnArgs.failedWordIds)
  /\ (fnArgs.op = "getFailedWordIds" /\ fnResult.done)
       => \A w \in WordIds :
            w \in fnResult.value
              <=> /\ w \in DOMAIN fnArgs.stats.wordStats
                  /\ fnArgs.stats.wordStats[w].attempts
                       - fnArgs.stats.wordStats[w].correct >= 1

\* C19 witness: of three attempted words the one never answered wrong is not
\* among the failed ids.
C19_Witness ==
  /\ fnArgs.op = "getFailedWordIds" /\ fnResult.done
  /\ DOMAIN fnArgs.stats.wordStats = {1, 2, 3}
  /\ fnArgs.stats.wordStats[2] = [attempts |-> 2, correct |-> 2]
  /\ fnResult.value = {1, 3}

\* C20: for a current word of a list of n items getChoices returns min(4, n)
\* options, exactly one marked correct and carrying the current word's target
\* term, the others marked incorrect and carrying the target terms of
\* pairwise distinct other items of the list.
C20_ChoicesShape ==
  (fnArgs.op = "getChoices" /\ fnResult.done)
    => LET ch == fnResult.value
           n == Len(fnArgs.vocab)
           term(id) == IF fnArgs.mode = "de-to-en" THEN Item(id).en ELSE Item(id).de
           right == {i \in DOMAIN ch : ch[i].isCorrect}
           wrong == DOMAIN ch \ right
           others == Members(fnArgs.vocab) \ {fnArgs.current}
       IN  /\ Len(ch) = (IF n < 4 THEN n ELSE 4)
           /\ Cardinality(right) = 1
           /\ \A i \in right : ch[i].text = term(fnArgs.current)
           /\ Cardinality(wrong) = (IF n - 1 < 3 THEN n - 1 ELSE 3)
           /\ \E f \in [wrong -> others] :
                /\ \A i, j \in wrong : f[i] = f[j] => i = j
                /\ \A i \in wrong : ch[i].text = term(f[i])

\* C20 witness: four options were made from the five words, the correct one last.
C20_Witness ==
  /\ fnArgs.op = "getChoices" /\ fnResult.done
  /\ Len(fnArgs.vocab) = 5 /\ Len(fnResult.value) = 4
  /\ fnResult.value[4].isCorrect

\* C21: after every stat mutation (an accepted answer, resetStats) the record
\* stored under the key holds the aggregate correct and attempts and the
\* per-word stats of the in-memory state; in no state after a mutation does
\* the stored record lag behind the in-memory stats.
C21_PersistedFollowsStats ==
  /\ persisted.present
       => /\ persisted.correct = correct
          /\ persisted.attempts = attempts
          /\ persisted.stats.correct = stats.correct
          /\ persisted.stats.attempts = stats.attempts
          /\ persisted.stats.wordStats = stats.wordStats
  /\ mounted => persisted.present

\* C21 witness: the stored record holds the stat of a word answered wrong in
\* this session, while its feedback is showing.
C21_Witness ==
  /\ hasAnswered /\ lastResult = "false" /\ timers = <<FALSE>>
  /\ persisted.present /\ persisted.attempts = 1 /\ persisted.correct = 0
  /\ displayWord \in DOMAIN persisted.stats.wordStats
  /\ persisted.stats.wordStats[displayWord] = [attempts |-> 1, correct |-> 0]

\* the key holds a record that saveStats wrote for a Stats of the program
HoldsSavedStats(stored) ==
  stored.present /\ \E o \in SavedStats : stored.text = JSON_stringify(o)

Unparsable(stored) == stored.present /\ stored.text.kind = "garbage"

\* C23: no storage function ends with an exception.  When the read throws or
\* the stored text cannot be parsed, loadStats returns the zero/empty default
\* record (and migrateOldStats takes nothing from storage); when the write or
\* the removal throws, saveStats and clearStats return as they do when it
\* succeeds, clearStats with the zeroed record.
C23_StorageFailuresAbsorbed ==
  fnResult.done
    => /\ fnResult.value.kind = "return"
       /\ (fnArgs.op = "loadStats" /\ (fnArgs.throws \/ Unparsable(persisted)))
            => fnResult.value.value = DefaultStats
       /\ (fnArgs.op = "migrateOldStats" /\ (fnArgs.throws \/ Unparsable(persisted)))
            => fnResult.value.value = Obj(<<>>)
       /\ fnArgs.op = "saveStats" => fnResult.value.value = Undefined
       /\ fnArgs.op = "clearStats" => fnResult.value.value = DefaultStats

\* C23 witness: loadStats met a text that is not JSON and returned the
\* default record.
C23_Witness ==
  /\ fnArgs.op = "loadStats" /\ ~fnArgs.throws /\ fnResult.done
  /\ Unparsable(persisted)
  /\ fnResult.value = Returned(DefaultStats)

\* the failed words: those whose recorded attempts exceed their correct answers
FailedWords(st) ==
  {w \in DOMAIN st.wordStats : st.wordStats[w].attempts > st.wordStats[w].correct}

\* the step accepts a wrong answer
WrongAnswerStep == attempts' = attempts + 1 /\ lastResult' = "false"

\* C24: a word enters the failed set exactly by an accepted wrong answer for
\* it, stays in it through every later step, correct answers included, and
\* leaves it only by resetStats, which empties the set.
C24_FailedUntilReset ==
  [][/\ WrongAnswerStep => displayWord \in FailedWords(stats')
     /\ \A w \in FailedWords(stats') \ FailedWords(stats) :
          WrongAnswerStep /\ displayWord = w
     /\ resetStats => FailedWords(stats') = {}
     /\ ~resetStats => FailedWords(stats) \subseteq FailedWords(stats')]_vars

\* C24 witness: the only word of the deck was answered wrong, came up again
\* and was answered correctly; it has attempts 2, correct 1 and is failed.
C24_Witness ==
  /\ Len(shuffled) = 1 /\ index = 1 /\ displayWord = shuffled[1]
  /\ hasAnswered /\ lastResult = "true" /\ timers = <<FALSE>>
  /\ stats.wordStats[displayWord] = [attempts |-> 2, correct |-> 1]
  /\ displayWord \in FailedWords(stats)

\* C25: on an empty deck (after initializeQuiz or setDifficulty with a filter
\* that lets no word through, and after any advance on it, the firing of a
\* stale timer included) no word is displayed and there are no choices.
C25_EmptyDeckNoContent ==
  shuffled = <<>> => (displayWord = NoWord /\ displayChoices = <<>>)

\* C25 witness: the timer of an answer fired after the learner chose a
\* difficulty no word has.
C25_Witness ==
  /\ mounted /\ shuffled = <<>> /\ difficulty = "hard"
  /\ index = 1 /\ attempts >= 1 /\ timers = <<>>
  /\ displayWord = NoWord /\ displayChoices = <<>>

\* C26: whenever hasAnswered is true an advance is pending, and, timers
\* firing in the end, every state with hasAnswered true is followed by one in
\* which hasAnswered is false and lastResult is cleared.
C26_AnsweredLeadsToPresenting ==
  /\ [](hasAnswered => timers # <<>>)
  /\ hasAnswered ~> (~hasAnswered /\ lastResult = "null")

\* C26 witness: the timer of the first answer has fired and the next word is
\* presented.
C26_Witness ==
  /\ index = 1 /\ attempts = 1 /\ timers = <<>>
  /\ ~hasAnswered /\ lastResult = "null" /\ ~isTransitioning
  /\ Len(shuffled) = 2 /\ displayWord = shuffled[2]

\* C27: in a session of answers and advances only, over a deck of n >= 1
\* words, index counts the advances without being reduced modulo n and the
\* displayed word is shuffled[index mod n]: n advances show every word once
\* and come back to the first.
C27_DeckLoops ==
  /\ []((mounted /\ shuffled # <<>>)
          => /\ displayWord = shuffled[(index % Len(shuffled)) + 1]
             /\ \A i, j \in DOMAIN shuffled : shuffled[i] = shuffled[j] => i = j)
  /\ [][advanceToNextQuestion => index' = index + 1]_vars

\* C27 witness: two advances over a deck of two words have come back to the
\* first word, with index 2.
C27_Witness ==
  /\ Len(shuffled) = 2 /\ index = 2 /\ displayWord = shuffled[1]
  /\ shuffled[1] # shuffled[2] /\ timers = <<>> /\ ~hasAnswered

\* C28: while the selector is "failed", every word of the deck is a failed
\* word (recorded attempts above correct answers), in every reachable state.
C28_FailedDeckStaysFailed ==
  difficulty = "failed"
    => \A i \in DOMAIN shuffled : shuffled[i] \in FailedWords(stats)

\* how often x occurs in the list
Count(l, x) == Cardinality({i \in DOMAIN l : l[i] = x})

\* C29: for every outcome of the random source shuffleArray returns a list
\* of the same length holding every item as often as its input does, and
\* leaves the caller's list as it was; getChoices leaves the list passed to
\* it as it was, order included.
C29_ShufflePermutes ==
  [][/\ callShuffleArray
          => /\ Len(fnResult'.value) = Len(fnArgs.items)
             /\ \A x \in WordIds : Count(fnResult'.value, x) = Count(fnArgs.items, x)
             /\ fnArgs'.items = fnArgs.items
     /\ callGetChoices => fnArgs'.vocab = fnArgs.vocab]_vars

\* C29 witness: the five words came back in reverse order and the list
\* handed in still has its order.
C29_Witness ==
  /\ fnArgs.op = "shuffleArray" /\ fnResult.done
  /\ fnArgs.items = << 1, 2, 3, 4, 5 >>
  /\ fnResult.value = << 5, 4, 3, 2, 1 >>

\* the step accepts an answer
AnswerStep == attempts' = attempts + 1

\* C30: a word's stat comes into being by the first accepted answer for the
\* word; no step other than resetStats removes a stat or lowers its attempts
\* or its correct count.
C30_WordStatLifecycle ==
  [][/\ \A w \in DOMAIN stats'.wordStats \ DOMAIN stats.wordStats :
          /\ AnswerStep /\ displayWord = w
          /\ stats'.wordStats[w].attempts = 1
     /\ AnswerStep => displayWord \in DOMAIN stats'.wordStats
     /\ ~resetStats
          => \A w \in DOMAIN stats.wordStats :
               /\ w \in DOMAIN stats'.wordStats
               /\ stats'.wordStats[w].attempts >= stats.wordStats[w].attempts
               /\ stats'.wordStats[w].correct >= stats.wordStats[w].correct]_vars

\* C30 witness: the stat of a word answered twice is still there after the
\* quiz was restarted with both advances pending.
C30_Witness ==
  /\ timers = << TRUE, TRUE >> /\ index = 0 /\ ~hasAnswered
  /\ displayWord \in DOMAIN stats.wordStats
  /\ stats.wordStats[displayWord] = [attempts |-> 2, correct |-> 1]

\* the key holds the JSON text of an object
HoldsObject(stored) ==
  stored.present /\ stored.text.kind = "json" /\ stored.text.value.t = "object"

\* C31: loadStats of a stored record without per-word map returns the
\* record's correct, attempts and lastSessionDate as stored, with an empty
\* per-word map; a stored record with a per-word map is returned with that
\* map as stored.
C31_BackwardCompatibleLoad ==
  (fnArgs.op = "loadStats" /\ fnResult.done /\ ~fnArgs.throws /\ HoldsObject(persisted))
    => LET rec == persisted.text.value
           res == fnResult.value.value
       IN  /\ fnResult.value.kind = "return"
           /\ \A k \in {"correct", "attempts", "lastSessionDate"} :
                Get(res, k) = Get(rec, k)
           /\ Get(res, "wordStats")
                = (IF Get(rec, "wordStats") = Undefined THEN Obj(<<>>)
                   ELSE Get(rec, "wordStats"))

\* C31 witness: a record of an older version, with two attempts and no
\* per-word map, was loaded.
C31_Witness ==
  /\ fnArgs.op = "loadStats" /\ fnResult.done /\ ~fnArgs.throws
  /\ HoldsObject(persisted)
  /\ Get(persisted.text.value, "wordStats") = Undefined
  /\ Get(persisted.text.value, "attempts") = Num(2)
  /\ Get(fnResult.value.value, "attempts") = Num(2)
  /\ Get(fnResult.value.value, "lastSessionDate") = Str(Earlier)
  /\ Get(fnResult.value.value, "wordStats") = Obj(<<>>)

\* C32: in every reachable state isTransitioning equals hasAnswered.
C32_TransitioningIffAnswered == isTransitioning = hasAnswered

\* C33: in every reachable state lastResult is set (true or false) iff
\* hasAnswered is true.
C33_ResultIffAnswered == (lastResult # "null") <=> hasAnswered

\* C33 witness: an answer was given after the quiz was restarted during the
\* feedback of an earlier one.
C33_Witness ==
  /\ hasAnswered /\ lastResult = "true" /\ timers = << TRUE, FALSE >>
  /\ index = 0

\* C34: in every reachable state the aggregate attempts is the sum of the
\* per-word attempts, the aggregate correct is the sum of the per-word
\* correct counts, and the top-level correct and attempts equal
\* stats.correct and stats.attempts.
C34_TotalsAreSums ==
  /\ attempts = SumOver(stats.wordStats, "attempts", DOMAIN stats.wordStats)
  /\ correct = SumOver(stats.wordStats, "correct", DOMAIN stats.wordStats)
  /\ correct = stats.correct
  /\ attempts = stats.attempts

\* C34 witness: each of the two words has been answered wrong once, the
\* second one just now.
C34_Witness ==
  /\ attempts = 2 /\ correct = 0 /\ index = 1 /\ hasAnswered
  /\ DOMAIN stats.wordStats = {1, 2}
  /\ \A w \in {1, 2} : stats.wordStats[w] = [attempts |-> 1, correct |-> 0]

\* C35: in every reachable state 0 <= correct <= attempts for the aggregate
\* counts, and every per-word stat has attempts >= 1 and
\* 0 <= correct <= attempts.
C35_CountBounds ==
  /\ 0 <= correct /\ correct <= attempts
  /\ 0 <= stats.correct /\ stats.correct <= stats.attempts
  /\ \A w \in DOMAIN stats.wordStats :
       /\ stats.wordStats[w].attempts >= 1
       /\ 0 <= stats.wordStats[w].correct
       /\ stats.wordStats[w].correct <= stats.wordStats[w].attempts

\* C35 witness: the displayed word was answered correctly twice.
C35_Witness ==
  /\ hasAnswered /\ lastResult = "true" /\ correct = 2 /\ attempts = 2
  /\ displayWord \in DOMAIN stats.wordStats
  /\ stats.wordStats[displayWord] = [attempts |-> 2, correct |-> 2]

\* C36: in every reachable state a word is displayed iff the deck is not
\* empty, and the displayed word is a word of the deck.
C36_DisplayWordInDeck ==
  /\ displayWord # NoWord <=> shuffled # <<>>
  /\ displayWord # NoWord => \E i \in DOMAIN shuffled : shuffled[i] = displayWord

\* C36 witness: the only medium word is shown again after an advance on the
\* deck filtered by "medium".
C36_Witness ==
  /\ difficulty = "medium" /\ shuffled = << 2 >> /\ displayWord = 2
  /\ index = 1 /\ timers = <<>> /\ ~hasAnswered

\* C37: in every reachable state that displays a word, exactly one of the
\* choices is marked correct and its text is the displayed word's term in
\* the target language of the current mode.
C37_ChoicesMatchDisplay ==
  displayWord # NoWord
    => LET right == {i \in DOMAIN displayChoices : displayChoices[i].isCorrect}
       IN  /\ Cardinality(right) = 1
           /\ \A i \in right :
                displayChoices[i].text
                  = (IF mode = "de-to-en" THEN Item(displayWord).en
                     ELSE Item(displayWord).de)

\* C37 witness: after a change of mode and, during the feedback of an
\* answer, a change of difficulty, the only easy word is offered with its
\* German term.
C37_Witness ==
  /\ mode = "en-to-de" /\ difficulty = "easy" /\ hasAnswered
  /\ displayWord = 1
  /\ displayChoices = << [text |-> << "J", "a" >>, isCorrect |-> TRUE] >>

====
